---- MODULE Spec2Model ----
(***************************************************************************)
(* A model of picasso's drift-correction core (picasso/imageprocess.py:    *)
(* xcorr, get_image_shift, rcc) and of picasso/io.py's get_movie_groups.   *)
(*                                                                         *)
(* Units.  Shifts and sub-pixel offsets are kept in HALF PIXELS, so that   *)
(* the true divisions X / 2 and Y / 2 of get_image_shift stay exact.  The  *)
(* correlation surface is kept multiplied by sqrt(imageA.size): xcorr      *)
(* divides by that positive number, which changes neither the place of the *)
(* maximum nor any comparison between two of its pixels.                   *)
(***************************************************************************)
EXTENDS Integers, Sequences, FiniteSets, TLC

\* A local that has not been assigned yet, or Python's None as an error or a
\* callback.
None == "None"

\* An optional integer argument: Nothing is Python's None, Some(v) the value v.
Nothing == <<>>
Some(v) == <<v>>

\* ------------------------------------------------------------------ bounds
MaxSegments == 3
MaxDim == 5
MaxPaths == 3
MaxIters == 4

\* The fit-window size rcc passes to get_image_shift.
Box == 5

\* ----------------------------------------------------------------- helpers
Max2(a, b) == IF a >= b THEN a ELSE b

Clamp(v, lo, hi) == IF v < lo THEN lo ELSE IF v > hi THEN hi ELSE v

RECURSIVE SumUpTo(_, _)
\* f[0] + ... + f[n-1]
SumUpTo(f, n) == IF n = 0 THEN 0 ELSE f[n - 1] + SumUpTo(f, n - 1)

\* Python's int(n / 2) of an integer n: true division, then truncation
\* toward zero.
PyIntHalf(n) == IF n >= 0 THEN n \div 2 ELSE -((-n) \div 2)

\* Python's a[start:stop] on an axis of length n: negative indices count from
\* the end, both ends are clipped to 0..n, and an end at or before the start
\* gives an empty slice.  lo is the first index taken, len the number taken.
PySlice(start, stop, n) ==
    LET s == Clamp(IF start < 0 THEN start + n ELSE start, 0, n)
        e == Clamp(IF stop < 0 THEN stop + n ELSE stop, 0, n)
    IN  [lo |-> s, len |-> IF e > s THEN e - s ELSE 0]

\* ------------------------------------------------------------------ images
\* An image is [h, w, px] with px a function on (0..h-1) \X (0..w-1).
Grid(h, w) == (0 .. h - 1) \X (0 .. w - 1)

\* A bright pixel (2) at (r, c) with a neighbour of brightness v to its right.
Spot(h, w, r, c, v) ==
    [h |-> h, w |-> w,
     px |-> [p \in Grid(h, w) |->
               IF p = <<r, c>> THEN 2
               ELSE IF p = <<r, (c + 1) % w>> THEN v ELSE 0]]

\* numpy's broadcasting rule for the product FimageA * CFimageB.
Broadcastable(imageA, imageB) ==
    /\ (imageA.h = imageB.h \/ imageA.h = 1 \/ imageB.h = 1)
    /\ (imageA.w = imageB.w \/ imageA.w = 1 \/ imageB.w = 1)

\* The pixel of img at p on a larger grid.  Repeating a spectrum of extent 1
\* along an axis (what broadcasting does to fft2's output) is the spectrum of
\* the image placed at index 0 of that axis and zero elsewhere.
Padded(img, y, x) == IF y < img.h /\ x < img.w THEN img.px[<<y, x>>] ELSE 0

\* ifft2(fft2(A) * conj(fft2(B)))[k, l], real part: the circular
\* cross-correlation sum over m of A[m + (k,l)] * B[m].
CircCorr(imageA, imageB, h, w, k, l) ==
    SumUpTo([y \in 0 .. imageB.h - 1 |->
               SumUpTo([x \in 0 .. imageB.w - 1 |->
                          Padded(imageA, (y + k) % h, (x + l) % w)
                            * imageB.px[<<y, x>>]],
                       imageB.w)],
            imageB.h)

RECURSIVE Tabulate(_, _)
\* <<f[0], ..., f[n-1]>>
Tabulate(f, n) == IF n = 0 THEN <<>> ELSE Append(Tabulate(f, n - 1), f[n - 1])

\* xcorr: defined when the two spectra broadcast; fftshift moves lag 0 to
\* index n \div 2 of each axis.  The surface is [h, w, px] with px the
\* sequence of its rows: pixel (y, x) is px[y + 1][x + 1].
xcorr(imageA, imageB) ==
    LET h == Max2(imageA.h, imageB.h)
        w == Max2(imageA.w, imageB.w)
    IN  [h |-> h, w |-> w,
         px |-> Tabulate([y \in 0 .. h - 1 |->
                   Tabulate([x \in 0 .. w - 1 |->
                       CircCorr(imageA, imageB, h, w,
                                (y - (h \div 2)) % h,
                                (x - (w \div 2)) % w)], w)], h)]

\* ---------------------------------------------------------- get_image_shift
\* Y_, X_ (lines 31-37).
CropOffsets(imageA, roi) ==
    IF roi # Nothing
    THEN <<PyIntHalf(imageA.h - roi[1]), PyIntHalf(imageA.w - roi[1])>>
    ELSE <<0, 0>>

\* XCorr_ as the index ranges it takes of XCorr (lines 35, 38).
SearchWindow(XCorr, imageA, roi) ==
    LET off == CropOffsets(imageA, roi)
    IN  IF roi # Nothing
        THEN [rows |-> PySlice(off[1], -off[1], XCorr.h),
              cols |-> PySlice(off[2], -off[2], XCorr.w)]
        ELSE [rows |-> [lo |-> 0, len |-> XCorr.h],
              cols |-> [lo |-> 0, len |-> XCorr.w]]

WindowSize(win) == win.rows.len * win.cols.len

WindowEmpty(win) == win.rows.len = 0 \/ win.cols.len = 0

\* The pixel of the window at window coordinates (y, x).
WindowPx(XCorr, win, y, x) ==
    XCorr.px[win.rows.lo + y + 1][win.cols.lo + x + 1]

RECURSIVE ArgMaxInRow(_, _, _, _)
\* The column of the first of the largest among the first n pixels of row y
\* of the window.
ArgMaxInRow(XCorr, win, y, n) ==
    IF n = 1 THEN 0
    ELSE LET b == ArgMaxInRow(XCorr, win, y, n - 1)
         IN  IF WindowPx(XCorr, win, y, n - 1) > WindowPx(XCorr, win, y, b)
             THEN n - 1 ELSE b

RECURSIVE ArgMaxInRows(_, _, _)
\* The place of the first of the largest pixels, in row-major order, of the
\* first n rows of the window.
ArgMaxInRows(XCorr, win, n) ==
    LET here == <<n - 1, ArgMaxInRow(XCorr, win, n - 1, win.cols.len)>>
    IN  IF n = 1 THEN here
        ELSE LET b == ArgMaxInRows(XCorr, win, n - 1)
             IN  IF WindowPx(XCorr, win, here[1], here[2])
                      > WindowPx(XCorr, win, b[1], b[2])
                 THEN here ELSE b

\* unravel_index(XCorr_.argmax(), XCorr_.shape): the first maximum in
\* row-major order, in window coordinates (line 44).
ArgMax(XCorr, win) == ArgMaxInRows(XCorr, win, win.rows.len)

\* fit_X (line 40).
FitHalf(box) == PyIntHalf(box)

\* FitROI as the index ranges it takes of the full XCorr (line 45).
FitWindow(XCorr, peak, off, box) ==
    LET f == FitHalf(box)
    IN  [rows |-> PySlice(peak[1] - f + off[1], peak[1] + f + off[1] + 1, XCorr.h),
         cols |-> PySlice(peak[2] - f + off[2], peak[2] + f + off[2] + 1, XCorr.w)]

\* The number of values the fit model returns: the mgrid of line 42.
ModelSize(box) == (2 * FitHalf(box) + 1) * (2 * FitHalf(box) + 1)

\* gaussian2d.fit subtracts FitROI.flatten() from the model's values: the two
\* must have one length, or the data a single value (lines 50, 60).
FitShapesAgree(fitwin, box) ==
    WindowSize(fitwin) = ModelSize(box) \/ WindowSize(fitwin) = 1

\* Mirror symmetry of the fit window along x (columns) and along y (rows).
SymmetricX(XCorr, fitwin) ==
    \A y \in 0 .. fitwin.rows.len - 1 : \A x \in 0 .. fitwin.cols.len - 1 :
        WindowPx(XCorr, fitwin, y, x)
          = WindowPx(XCorr, fitwin, y, fitwin.cols.len - 1 - x)

SymmetricY(XCorr, fitwin) ==
    \A y \in 0 .. fitwin.rows.len - 1 : \A x \in 0 .. fitwin.cols.len - 1 :
        WindowPx(XCorr, fitwin, y, x)
          = WindowPx(XCorr, fitwin, fitwin.rows.len - 1 - y, x)

\* The sub-pixel offsets a fit may return, in half pixels: half a pixel to
\* either side, or none, standing for the reals the optimiser can end on.
SubPixel == {-1, 0, 1}

\* results.best_values of the least-squares fit, as <<yc, xc>> (lines 51-64).
\* The fit starts at xc = yc = 0.  On data that is mirror-symmetric along an
\* axis, the model's derivative in that axis' centre is odd while the residual
\* and every other derivative are even, so no step moves that centre: it stays
\* 0.  On other data the optimiser's answer is any member of SubPixel.
FitCentres(XCorr, fitwin) ==
    LET evenY == SymmetricY(XCorr, fitwin)
        evenX == SymmetricX(XCorr, fitwin)
    IN  {c \in SubPixel \X SubPixel :
            (evenY => c[1] = 0) /\ (evenX => c[2] = 0)}

\* -yc, -xc after lines 65-66 and 79-80, in half pixels: X / 2 and Y / 2 are
\* true divisions.
ShiftOf(imageA, peak, off, c) ==
    << -(c[1] + 2 * (off[1] + peak[1]) - imageA.h),
       -(c[2] + 2 * (off[2] + peak[2]) - imageA.w) >>

\* Every way a call get_image_shift(imageA, imageB, box, roi) can end: a
\* ValueError raised by numpy (the product of xcorr, argmax or max of an empty
\* array, the fit's subtraction), or a returned shift.
get_image_shift(imageA, imageB, box, roi) ==
    IF ~Broadcastable(imageA, imageB)
    THEN {[err |-> "ValueError", at |-> "xcorr", shift |-> <<0, 0>>]}
    ELSE
    LET XCorr == xcorr(imageA, imageB)
        off == CropOffsets(imageA, roi)
        win == SearchWindow(XCorr, imageA, roi)
    IN  IF WindowEmpty(win)
        THEN {[err |-> "ValueError", at |-> "argmax", shift |-> <<0, 0>>]}
        ELSE
        LET peak == ArgMax(XCorr, win)
            fitwin == FitWindow(XCorr, peak, off, box)
        IN  IF WindowEmpty(fitwin)
            THEN {[err |-> "ValueError", at |-> "FitROI.max", shift |-> <<0, 0>>]}
            ELSE IF ~FitShapesAgree(fitwin, box)
            THEN {[err |-> "ValueError", at |-> "fit", shift |-> <<0, 0>>]}
            ELSE {[err |-> None, at |-> "return",
                   shift |-> ShiftOf(imageA, peak, off, c)] :
                     c \in FitCentres(XCorr, fitwin)}

\* ------------------------------------------------------------------ state
VARIABLES
    \* rcc: its arguments, its locals, and what it hands back
    segments, max_shift, callback, pc, n_pairs, i, j, flag, dij, rij, A, Dj,
    result, err,
    \* rcc's surroundings: the counts the callback was given, the shifts
    \* get_image_shift returned (with their pair), a caller's wish to cancel
    calls, measured, cancelRequested,
    \* a single call of get_image_shift, statement by statement
    imageA, imageB, box, roi, spc, XCorr, win, peak, fitwin, centre, shift,
    serr,
    \* get_movie_groups: its argument, its working list, its groups, the
    \* iterations of its while loop
    gin, paths, groups, gpc, gerr, iters

rccVars == <<segments, max_shift, callback, pc, n_pairs, i, j, flag, dij, rij,
             A, Dj, result, err, calls, measured, cancelRequested>>
shiftVars == <<imageA, imageB, box, roi, spc, XCorr, win, peak, fitwin,
               centre, shift, serr>>
groupVars == <<gin, paths, groups, gpc, gerr, iters>>
vars == <<rccVars, shiftVars, groupVars>>

\* ---------------------------------------------------------------------- rcc
\* Segments a run is given: two 6 x 6 images (the second is the first moved by
\* a pixel, with a second bright pixel), one of another shape that does not
\* broadcast against them, and a single row, which does.
SegmentPool ==
    {Spot(6, 6, 0, 0, 0), Spot(6, 6, 0, 1, 1),
     Spot(5, 6, 0, 0, 0), Spot(1, 6, 0, 0, 1)}

SegmentLists == UNION {[1 .. n -> SegmentPool] : n \in 0 .. MaxSegments}

MaxShifts == {Nothing, Some(4), Some(6)}

\* n_pairs (line 86).
PairCount(n_segments) == PyIntHalf(n_segments * (n_segments - 1))

\* The columns A[flag, i:j] = 1 assigns in a row of n_segments - 1 (line 99).
RowSliceWide(ii, jj, width) == PySlice(ii, jj + 1, width)
RowSlice(ii, jj, width) == PySlice(ii, jj, width)

\* The count handed to the callback after a pair (line 102).
ProgressStale(f) == f - 1
Progress(f) == f

\* Matrices are functions on 0 .. rows-1 of functions on 0 .. cols-1.
Zeros(rows, cols) == [r \in 0 .. rows - 1 |-> [c \in 0 .. cols - 1 |-> 0]]

\* Row r and column c removed from the k x k matrix M.
Minor(M, k, r, c) ==
    [a \in 0 .. k - 2 |-> [b \in 0 .. k - 2 |->
        M[IF a < r THEN a ELSE a + 1][IF b < c THEN b ELSE b + 1]]]

Sign(n) == IF n % 2 = 0 THEN 1 ELSE -1

RECURSIVE Det(_, _)
\* The determinant of the k x k matrix M, along its first row.
Det(M, k) ==
    IF k = 0 THEN 1
    ELSE SumUpTo([c \in 0 .. k - 1 |->
                    Sign(c) * M[0][c] * Det(Minor(M, k, 0, c), k - 1)], k)

\* A^T A for an m x c matrix.
Gram(M, m, c) ==
    [a \in 0 .. c - 1 |-> [b \in 0 .. c - 1 |->
        SumUpTo([r \in 0 .. m - 1 |-> M[r][a] * M[r][b]], m)]]

\* det(A^T A) * pinv(A) . R for an m x c matrix A of rank c and an m x 2
\* matrix R: pinv(A) is then (A^T A)^-1 A^T, and the inverse is the adjugate
\* over the determinant.
PinvDotNum(M, R, m, c) ==
    LET G == Gram(M, m, c)
        adj(a, b) == Sign(a + b) * Det(Minor(G, c, b, a), c - 1)
        AtR(b, k) == SumUpTo([r \in 0 .. m - 1 |-> M[r][b] * R[r][k]], m)
    IN  [a \in 0 .. c - 1 |-> [k \in 0 .. 1 |->
            SumUpTo([b \in 0 .. c - 1 |-> adj(a, b) * AtR(b, k)], c)]]

PinvDen(M, m, c) == Det(Gram(M, m, c), c)

RECURSIVE CumSum(_, _, _)
\* cumsum(Dj[:, k]) up to and including entry n - 1, as a sequence.
CumSum(D, k, n) ==
    IF n = 0 THEN <<>>
    ELSE LET before == CumSum(D, k, n - 1)
         IN  Append(before,
                    (IF n = 1 THEN 0 ELSE before[n - 1]) + D[n - 1][k])

\* insert(cumsum(Dj[:, k]), 0, 0) (lines 104-105).
TrajectoryNoOrigin(D, k, n) == CumSum(D, k, n)
Trajectory(D, k, n) == <<0>> \o CumSum(D, k, n)

\* The values of the variables a specification does not use.
ShiftIdle ==
    /\ imageA = None /\ imageB = None /\ box = None /\ roi = Nothing
    /\ spc = "idle" /\ XCorr = None /\ win = None /\ peak = None
    /\ fitwin = None /\ centre = None /\ shift = None /\ serr = None

GroupsIdle ==
    /\ gin = <<>> /\ paths = <<>> /\ groups = <<>> /\ gpc = "idle"
    /\ gerr = None /\ iters = 0

RccIdle ==
    /\ segments = <<>> /\ max_shift = Nothing /\ callback = None /\ pc = "idle"
    /\ n_pairs = None /\ i = None /\ j = None /\ flag = None /\ dij = None
    /\ rij = None /\ A = None /\ Dj = None /\ result = None /\ err = None
    /\ calls = <<>> /\ measured = <<>> /\ cancelRequested = FALSE

\* A call rcc(segments, max_shift, callback) about to run.
RccInit ==
    /\ segments \in SegmentLists
    /\ max_shift \in MaxShifts
    /\ callback \in {None, "sink"}
    /\ pc = "start"
    /\ n_pairs = None /\ i = None /\ j = None /\ flag = None /\ dij = None
    /\ rij = None /\ A = None /\ Dj = None /\ result = None /\ err = None
    /\ calls = <<>> /\ measured = <<>> /\ cancelRequested = FALSE

Init == RccInit /\ ShiftIdle /\ GroupsIdle

\* Lines 85-89.  numpy.zeros refuses a negative dimension, which
\* n_segments - 1 is for an empty list.
rcc_alloc ==
    /\ pc = "start"
    /\ LET n_segments == Len(segments)
       IN  /\ n_pairs' = PairCount(n_segments)
           /\ IF n_segments - 1 < 0
              THEN /\ pc' = "error"
                   /\ err' = "ValueError"
                   /\ rij' = Zeros(PairCount(n_segments), 2)
                   /\ UNCHANGED <<A, flag>>
              ELSE /\ pc' = "entered"
                   /\ rij' = Zeros(PairCount(n_segments), 2)
                   /\ A' = Zeros(PairCount(n_segments), n_segments - 1)
                   /\ flag' = 0
                   /\ err' = err
    /\ UNCHANGED <<segments, max_shift, callback, i, j, dij, Dj, result,
                   calls, measured, cancelRequested>>
    /\ UNCHANGED <<shiftVars, groupVars>>

\* Lines 90-94: callback(0), then the heads of the two for loops.
rcc_enter ==
    /\ pc = "entered"
    /\ calls' = IF callback # None THEN Append(calls, 0) ELSE calls
    /\ IF Len(segments) - 1 > 0
       THEN pc' = "pair" /\ i' = 0 /\ j' = 1
       ELSE pc' = "solve" /\ UNCHANGED <<i, j>>
    /\ UNCHANGED <<segments, max_shift, callback, n_pairs, flag, dij, rij, A,
                   Dj, result, err, measured, cancelRequested>>
    /\ UNCHANGED <<shiftVars, groupVars>>

\* Lines 95-96: the pair's call of get_image_shift, which returns a shift or
\* raises.
rcc_shift ==
    /\ pc = "pair"
    /\ \E out \in get_image_shift(segments[i + 1], segments[j + 1], Box,
                                  max_shift) :
         IF out.err # None
         THEN /\ pc' = "error"
              /\ err' = out.err
              /\ UNCHANGED <<dij, measured>>
         ELSE /\ pc' = "write"
              /\ dij' = out.shift
              /\ measured' = Append(measured,
                                    [i |-> i, j |-> j, shift |-> out.shift])
              /\ err' = err
    /\ UNCHANGED <<segments, max_shift, callback, n_pairs, i, j, flag, rij, A,
                   Dj, result, calls, cancelRequested>>
    /\ UNCHANGED <<shiftVars, groupVars>>

\* Lines 97-100.
rcc_write ==
    /\ pc = "write"
    /\ rij' = [rij EXCEPT ![flag] = [k \in 0 .. 1 |-> dij[k + 1]]]
    /\ LET cols == RowSlice(i, j, Len(segments) - 1)
       IN  A' = [A EXCEPT ![flag] =
                   [c \in 0 .. Len(segments) - 2 |->
                      IF cols.lo <= c /\ c < cols.lo + cols.len
                      THEN 1 ELSE @[c]]]
    /\ flag' = flag + 1
    /\ pc' = "notify"
    /\ UNCHANGED <<segments, max_shift, callback, n_pairs, i, j, dij, Dj,
                   result, err, calls, measured, cancelRequested>>
    /\ UNCHANGED <<shiftVars, groupVars>>

\* Lines 101-102, then the next turn of the loops of lines 93-94.
rcc_notify ==
    /\ pc = "notify"
    /\ calls' = IF callback # None THEN Append(calls, Progress(flag)) ELSE calls
    /\ IF j + 1 < Len(segments)
       THEN pc' = "pair" /\ j' = j + 1 /\ i' = i
       ELSE IF i + 1 < Len(segments) - 1
            THEN pc' = "pair" /\ i' = i + 1 /\ j' = i + 2
            ELSE pc' = "solve" /\ UNCHANGED <<i, j>>
    /\ UNCHANGED <<segments, max_shift, callback, n_pairs, flag, dij, rij, A,
                   Dj, result, err, measured, cancelRequested>>
    /\ UNCHANGED <<shiftVars, groupVars>>

\* Line 103.  Dj is kept as its numerators over the common denominator
\* den = det(A^T A).  Of a matrix without rows or columns (one segment), pinv
\* is the empty matrix in some releases of numpy and a LinAlgError in others.
rcc_solve ==
    /\ pc = "solve"
    /\ LET m == n_pairs
           c == Len(segments) - 1
       IN  IF c = 0
           THEN \/ /\ pc' = "error" /\ err' = "LinAlgError" /\ Dj' = Dj
                \/ /\ pc' = "cumsum" /\ err' = err
                   /\ Dj' = [num |-> Zeros(0, 2), den |-> 1]
           ELSE /\ pc' = "cumsum" /\ err' = err
                /\ Dj' = [num |-> PinvDotNum(A, rij, m, c),
                          den |-> PinvDen(A, m, c)]
    /\ UNCHANGED <<segments, max_shift, callback, n_pairs, i, j, flag, dij,
                   rij, A, result, calls, measured, cancelRequested>>
    /\ UNCHANGED <<shiftVars, groupVars>>

\* Lines 104-106.
rcc_return ==
    /\ pc = "cumsum"
    /\ result' = [shift_y |-> Trajectory(Dj.num, 0, Len(segments) - 1),
                  shift_x |-> Trajectory(Dj.num, 1, Len(segments) - 1),
                  den |-> Dj.den]
    /\ pc' = "done"
    /\ UNCHANGED <<segments, max_shift, callback, n_pairs, i, j, flag, dij,
                   rij, A, Dj, err, calls, measured, cancelRequested>>
    /\ UNCHANGED <<shiftVars, groupVars>>

\* The caller asks, while rcc runs, that the run be cancelled.  rcc's
\* parameters (line 84) take no such signal and no statement of it reads one.
RequestCancel ==
    /\ pc \in {"entered", "pair", "write", "notify", "solve", "cumsum"}
    /\ ~cancelRequested
    /\ cancelRequested' = TRUE
    /\ UNCHANGED <<segments, max_shift, callback, pc, n_pairs, i, j, flag,
                   dij, rij, A, Dj, result, err, calls, measured>>
    /\ UNCHANGED <<shiftVars, groupVars>>

Next ==
    \/ rcc_alloc
    \/ rcc_enter
    \/ rcc_shift
    \/ rcc_write
    \/ rcc_notify
    \/ rcc_solve
    \/ rcc_return
    \/ RequestCancel

Spec == Init /\ [][Next]_vars

\* ------------------------------------------- get_image_shift, step by step
Dims == (MaxDim - 1) .. MaxDim

\* imageA: a spot in the corner of every shape.
BaseImages ==
    {Spot(t[1], t[2], 0, 0, t[3]) : t \in Dims \X Dims \X {0, 1}}

\* imageB: a spot anywhere in every shape.
AllImages ==
    {Spot(t[1], t[2], t[3], t[4], t[5]) :
        t \in {u \in Dims \X Dims \X (0 .. MaxDim - 1) \X (0 .. MaxDim - 1)
                      \X {0, 1} : u[3] < u[1] /\ u[4] < u[2]}}

Boxes == {1, 3, 5}

Rois == {Nothing} \cup {Some(r) : r \in 1 .. MaxDim}

\* A call get_image_shift(imageA, imageB, box, roi) about to run.
ShiftInit ==
    /\ imageA \in BaseImages
    /\ imageB \in AllImages
    /\ box \in Boxes
    /\ roi \in Rois
    /\ spc = "start"
    /\ XCorr = None /\ win = None /\ peak = None /\ fitwin = None
    /\ centre = None /\ shift = None /\ serr = None

InitShift == ShiftInit /\ RccIdle /\ GroupsIdle

\* Line 29: the product of the two spectra in xcorr raises when their shapes
\* do not broadcast.
gis_xcorr ==
    /\ spc = "start"
    /\ IF Broadcastable(imageA, imageB)
       THEN XCorr' = xcorr(imageA, imageB) /\ spc' = "crop" /\ serr' = serr
       ELSE XCorr' = XCorr /\ spc' = "error" /\ serr' = "ValueError"
    /\ UNCHANGED <<imageA, imageB, box, roi, win, peak, fitwin, centre, shift>>
    /\ UNCHANGED <<rccVars, groupVars>>

\* Lines 31-38.
gis_crop ==
    /\ spc = "crop"
    /\ win' = SearchWindow(XCorr, imageA, roi)
    /\ spc' = "search"
    /\ UNCHANGED <<imageA, imageB, box, roi, XCorr, peak, fitwin, centre,
                   shift, serr>>
    /\ UNCHANGED <<rccVars, groupVars>>

\* Line 44: argmax raises on an empty array.
gis_argmax ==
    /\ spc = "search"
    /\ IF WindowEmpty(win)
       THEN peak' = peak /\ spc' = "error" /\ serr' = "ValueError"
       ELSE peak' = ArgMax(XCorr, win) /\ spc' = "cut" /\ serr' = serr
    /\ UNCHANGED <<imageA, imageB, box, roi, XCorr, win, fitwin, centre, shift>>
    /\ UNCHANGED <<rccVars, groupVars>>

\* Line 45.
gis_cut ==
    /\ spc = "cut"
    /\ fitwin' = FitWindow(XCorr, peak, CropOffsets(imageA, roi), box)
    /\ spc' = "fit"
    /\ UNCHANGED <<imageA, imageB, box, roi, XCorr, win, peak, centre, shift,
                   serr>>
    /\ UNCHANGED <<rccVars, groupVars>>

\* Lines 54-64: FitROI.max() raises on an empty array, and the fit raises when
\* the model's values and the data do not broadcast.
gis_fit ==
    /\ spc = "fit"
    /\ IF WindowEmpty(fitwin) \/ ~FitShapesAgree(fitwin, box)
       THEN centre' = centre /\ spc' = "error" /\ serr' = "ValueError"
       ELSE /\ centre' \in FitCentres(XCorr, fitwin)
            /\ spc' = "return" /\ serr' = serr
    /\ UNCHANGED <<imageA, imageB, box, roi, XCorr, win, peak, fitwin, shift>>
    /\ UNCHANGED <<rccVars, groupVars>>

\* Lines 65-66 and 79-81.
gis_return ==
    /\ spc = "return"
    /\ shift' = ShiftOf(imageA, peak, CropOffsets(imageA, roi), centre)
    /\ spc' = "done"
    /\ UNCHANGED <<imageA, imageB, box, roi, XCorr, win, peak, fitwin, centre,
                   serr>>
    /\ UNCHANGED <<rccVars, groupVars>>

NextShift ==
    \/ gis_xcorr
    \/ gis_crop
    \/ gis_argmax
    \/ gis_cut
    \/ gis_fit
    \/ gis_return

SpecShift == InitShift /\ [][NextShift]_vars

\* --------------------------------------------------------- get_movie_groups
\* A path is the sequence of its characters.
OmeTif == <<".", "o", "m", "e", ".", "t", "i", "f">>

Digits == {"0", "1", "2", "3", "4", "5", "6", "7", "8", "9"}

\* a.ome.tif, a_1.ome.tif, b.ome.tif, a.tif, a_1.ome.tiff
PathPool ==
    {<<"a">> \o OmeTif, <<"a", "_", "1">> \o OmeTif, <<"b">> \o OmeTif,
     <<"a", ".", "t", "i", "f">>, <<"a", "_", "1">> \o OmeTif \o <<"f">>}

\* Lists of distinct paths, as glob returns them.
PathLists ==
    {l \in UNION {[1 .. n -> PathPool] : n \in 0 .. MaxPaths} :
        \A a, b \in 1 .. Len(l) : a # b => l[a] # l[b]}

\* path.endswith(suffix)
EndsWith(path, suffix) ==
    /\ Len(path) >= Len(suffix)
    /\ SubSeq(path, Len(path) - Len(suffix) + 1, Len(path)) = suffix

\* path[0:-8] (line 135)
PathBase(path) == SubSeq(path, 1, Len(path) - 8)

\* The pattern of line 136 as the sequence of its items: a character of
\* path_base or of '_' or of 'ome' and 'tif' stands for itself, '.' for any
\* character, and '[0-9]' for a digit.
Pattern(path_base) ==
    [k \in 1 .. Len(path_base) |->
        IF path_base[k] = "." THEN "any" ELSE path_base[k]]
    \o <<"_", "digit", "any", "o", "m", "e", "any", "t", "i", "f">>

ItemMatches(item, ch) ==
    IF item = "any" THEN TRUE
    ELSE IF item = "digit" THEN ch \in Digits
    ELSE item = ch

\* re.match(pattern, path): the pattern must match a prefix of the path
\* (line 137); Matched is what .group() then returns (line 138).
ReMatch(pattern, path) ==
    /\ Len(path) >= Len(pattern)
    /\ \A k \in 1 .. Len(pattern) : ItemMatches(pattern[k], path[k])

Matched(pattern, path) == SubSeq(path, 1, Len(pattern))

RECURSIVE MatchGroups(_, _, _)
\* [_.group() for _ in matches if _] over the first n paths (line 138).
MatchGroups(pattern, ps, n) ==
    IF n = 0 THEN <<>>
    ELSE MatchGroups(pattern, ps, n - 1)
           \o (IF ReMatch(pattern, ps[n])
               THEN <<Matched(pattern, ps[n])>> ELSE <<>>)

\* list.remove(x): the list without its first x.
ListRemove(ps, x) ==
    LET k == CHOOSE a \in 1 .. Len(ps) :
                 ps[a] = x /\ \A b \in 1 .. a - 1 : ps[b] # x
    IN  SubSeq(ps, 1, k - 1) \o SubSeq(ps, k + 1, Len(ps))

Contains(ps, x) == \E a \in 1 .. Len(ps) : ps[a] = x

RECURSIVE RemoveEach(_, _, _)
\* The loop of lines 140-141 over the first n members of group: the list
\* left, and whether a remove raised ValueError (the list is then as the
\* removes before it left it).
RemoveEach(ps, group, n) ==
    IF n = 0 THEN [ok |-> TRUE, paths |-> ps]
    ELSE LET before == RemoveEach(ps, group, n - 1)
         IN  IF ~before.ok THEN before
             ELSE IF Contains(before.paths, group[n])
             THEN [ok |-> TRUE, paths |-> ListRemove(before.paths, group[n])]
             ELSE [ok |-> FALSE, paths |-> before.paths]

\* A call get_movie_groups(paths) after lines 130-131.
GroupsInit ==
    /\ gin \in PathLists
    /\ paths = gin
    /\ groups = <<>>
    /\ gpc = "loop"
    /\ gerr = None
    /\ iters = 0

InitGroups == GroupsInit /\ RccIdle /\ ShiftIdle

\* One turn of the while loop (lines 132-141).  iters counts the turns.
gmg_iterate ==
    /\ gpc = "loop"
    /\ Len(paths) > 0
    /\ iters < MaxIters
    /\ iters' = iters + 1
    /\ LET path == paths[1]
       IN  IF EndsWith(path, OmeTif)
           THEN LET pattern == Pattern(PathBase(path))
                    group == <<path>> \o MatchGroups(pattern, paths, Len(paths))
                    left == RemoveEach(paths, group, Len(group))
                IN  /\ groups' = Append(groups, group)
                    /\ paths' = left.paths
                    /\ IF left.ok
                       THEN gpc' = gpc /\ gerr' = gerr
                       ELSE gpc' = "error" /\ gerr' = "ValueError"
           ELSE UNCHANGED <<paths, groups, gpc, gerr>>
    /\ gin' = gin
    /\ UNCHANGED <<rccVars, shiftVars>>

\* The loop's test fails: line 142.
gmg_return ==
    /\ gpc = "loop"
    /\ Len(paths) = 0
    /\ gpc' = "done"
    /\ UNCHANGED <<gin, paths, groups, gerr, iters>>
    /\ UNCHANGED <<rccVars, shiftVars>>

NextGroups ==
    \/ gmg_iterate
    \/ gmg_return

SpecGroups == InitGroups /\ [][NextGroups]_vars

\* ------------------------------------------------------------------ claims
\* The pairs (i, j), 0 <= i < j < n, and their lexicographic order.
PairsOf(n) == {p \in (0 .. n - 1) \X (0 .. n - 1) : p[1] < p[2]}

LexBefore(q, p) == q[1] < p[1] \/ (q[1] = p[1] /\ q[2] < p[2])

\* The pair with exactly k pairs before it.
KthPair(k, n) ==
    CHOOSE p \in PairsOf(n) :
        Cardinality({q \in PairsOf(n) : LexBefore(q, p)}) = k

\* Row k of A is the row of pair p, and row k of rij the one shift
\* get_image_shift returned for p.
RowIsPair(k, p, n) ==
    /\ DOMAIN A[k] = 0 .. n - 2
    /\ \A c \in 0 .. n - 2 :
         A[k][c] = IF p[1] <= c /\ c <= p[2] - 1 THEN 1 ELSE 0
    /\ SumUpTo(A[k], n - 1) = p[2] - p[1]
    /\ Cardinality({e \in 1 .. Len(measured) :
                      measured[e].i = p[1] /\ measured[e].j = p[2]}) = 1
    /\ \A e \in 1 .. Len(measured) :
         (measured[e].i = p[1] /\ measured[e].j = p[2])
           => (rij[k][0] = measured[e].shift[1]
               /\ rij[k][1] = measured[e].shift[2])

PairLoopDone == pc \in {"solve", "cumsum", "done"}

\* C1: for N >= 2 segments, once the pair loop has finished A has exactly
\* N(N-1)/2 rows, row k is the row of the k-th pair (i, j) in lexicographic
\* order (1 in columns i .. j-1, 0 elsewhere, sum j - i), and row k of rij is
\* the shift measured for that pair.
C1_DesignMatrixRows ==
    (PairLoopDone /\ Len(segments) >= 2) =>
        LET n == Len(segments)
        IN  /\ DOMAIN A = 0 .. ((n * (n - 1)) \div 2) - 1
            /\ DOMAIN rij = DOMAIN A
            /\ \A k \in DOMAIN A : RowIsPair(k, KthPair(k, n), n)

\* A run of three segments has left its pair loop with two different shifts
\* in rij.
C1_Witness ==
    /\ pc = "solve"
    /\ Len(segments) = 3
    /\ rij[0] # rij[2]

\* C2: for N >= 2 segments the returned trajectory has N entries in y and in
\* x, starts at (0, 0), and each later entry is the one before plus the solved
\* increment Dj[k-1] (numerators over the one denominator of Dj).
C2_Trajectory ==
    (pc = "done" /\ Len(segments) >= 2) =>
        LET n == Len(segments)
        IN  /\ Len(result.shift_y) = n
            /\ Len(result.shift_x) = n
            /\ result.shift_y[1] = 0
            /\ result.shift_x[1] = 0
            /\ result.den = Dj.den
            /\ \A k \in 1 .. n - 1 :
                 /\ result.shift_y[k + 1] = result.shift_y[k] + Dj.num[k - 1][0]
                 /\ result.shift_x[k + 1] = result.shift_x[k] + Dj.num[k - 1][1]

EqualShaped ==
    \A a, b \in 1 .. Len(segments) :
        segments[a].h = segments[b].h /\ segments[a].w = segments[b].w

\* Three segments of one shape gave a trajectory that moves.
C2_Witness ==
    /\ pc = "done"
    /\ Len(segments) = 3
    /\ EqualShaped
    /\ result.shift_x[2] # 0
    /\ result.shift_x[3] # result.shift_x[2]

\* C3: in a run with a callback and N >= 2 segments that is not cancelled, the
\* counts handed to the callback never decrease, N(N-1)/2 is handed over at
\* most once, and exactly once and last when the pair loop has finished, and a
\* count k >= 1 is handed over only when the k-th pair's rows of A and rij are
\* written.
C3_Progress ==
    (callback # None /\ Len(segments) >= 2 /\ ~cancelRequested) =>
        LET n == Len(segments)
            total == (n * (n - 1)) \div 2
            last == {a \in 1 .. Len(calls) : calls[a] = total}
        IN  /\ \A a, b \in 1 .. Len(calls) : a < b => calls[a] <= calls[b]
            /\ Cardinality(last) <= 1
            /\ PairLoopDone =>
                 (Cardinality(last) = 1 /\ calls[Len(calls)] = total)
            /\ \A a \in 1 .. Len(calls) :
                 calls[a] >= 1 =>
                   /\ calls[a] <= flag
                   /\ RowIsPair(calls[a] - 1, KthPair(calls[a] - 1, n), n)

\* A run of three segments with a callback, not cancelled, has returned after
\* the counts 0, 1, 2, 3.
C3_Witness ==
    /\ pc = "done"
    /\ callback # None
    /\ ~cancelRequested
    /\ Len(segments) = 3
    /\ calls = <<0, 1, 2, 3>>

MismatchedPair ==
    \E a, b \in 1 .. Len(segments) :
        a < b /\ (segments[a].h # segments[b].h \/ segments[a].w # segments[b].w)

\* C4: when two segments of a pair differ in shape the run fails before A or
\* rij is constructed and before the solve, and returns no trajectory: it is
\* either still before line 87 or has raised.
C4_ShapeMismatchFirst ==
    MismatchedPair => pc \in {"start", "error"}

\* C5: once cancellation is requested no new pair is handed to
\* get_image_shift and the run does not return a trajectory.
C5_CancelStops ==
    [][cancelRequested =>
         (~(pc = "pair" /\ pc' # "pair") /\ pc' # "done")]_vars

\* C6: with fewer than two segments rcc reports an error before it attempts
\* the least-squares solve, and returns no trajectory.
C6_SingularReported ==
    (pc # "idle" /\ Len(segments) < 2) =>
        pc \in {"start", "entered", "error"} /\ err # "LinAlgError"

\* C7: get_image_shift of an image with itself returns (0, 0), whatever the
\* parity of the image's height and width.
C7_SelfShiftZero ==
    (spc = "done" /\ imageA = imageB) => shift = <<0, 0>>

SameShape == imageA.h = imageB.h /\ imageA.w = imageB.w

\* C8: for a roi between 1 and min(H, W), the peak search runs on a window of
\* roi x roi pixels with its top-left corner at
\* (floor((H - roi) / 2), floor((W - roi) / 2)).
C8_SearchWindow ==
    (/\ spc \in {"search", "cut", "fit", "return", "done"}
     /\ SameShape
     /\ roi # Nothing
     /\ roi[1] <= imageA.h /\ roi[1] <= imageA.w) =>
        /\ win.rows.len = roi[1]
        /\ win.cols.len = roi[1]
        /\ win.rows.lo = (imageA.h - roi[1]) \div 2
        /\ win.cols.lo = (imageA.w - roi[1]) \div 2

\* C9: for every peak the search returns, the fit window is a block of
\* 2 floor(box/2) + 1 pixels each way of the full surface, with the peak at
\* its centre.
C9_FitWindow ==
    (spc \in {"fit", "return", "done"} /\ SameShape) =>
        LET f == box \div 2
            off == CropOffsets(imageA, roi)
        IN  /\ fitwin.rows.len = 2 * f + 1
            /\ fitwin.cols.len = 2 * f + 1
            /\ fitwin.rows.lo + f = peak[1] + off[1]
            /\ fitwin.cols.lo + f = peak[2] + off[2]

\* C10: every turn of the while loop of get_movie_groups takes at least one
\* path off the working list.
C10_EveryTurnRemoves ==
    [][iters' = iters + 1 => Len(paths') < Len(paths)]_vars

====
